---------------------------- MODULE Spec2Model ----------------------------
(***************************************************************************)
(* SnapExtract: a browser page that captures an image (file selection,     *)
(* clipboard read, paste event), sends it to a hosted model for phone      *)
(* number extraction and shows the result.                                 *)
(*                                                                         *)
(* The repository holds two revisions of each source file, one after the  *)
(* other in the same file.  Both are modelled: appVer selects the revision *)
(* of App.tsx (1: lines 1-303, 2: lines 305-532) and svcVer the revision   *)
(* of the gemini service (1: lines 1-80, 2: lines 83-156).  Both are       *)
(* chosen in Init and never change.                                        *)
(*                                                                         *)
(* Text is modelled as a sequence of tokens (TLA+ strings).  A token is    *)
(* an indivisible piece of text: String.includes, String.trim,             *)
(* String.split, the MIME regular expression and JSON.parse are computed   *)
(* token by token.  A FileReader always delivers a data URL (read errors   *)
(* are outside the model).                                                 *)
(***************************************************************************)
EXTENDS Naturals, Sequences, FiniteSets

(***************************************************************************)
(* Bounds of the model.                                                    *)
(***************************************************************************)
MaxPending  == 2   \* clipboard reads, file reads and provider calls outstanding at once
MaxImageLen == 5   \* tokens of an input string of the MIME/payload functions
MaxMsgLen   == 3   \* tokens of a provider error message
MaxTextLen  == 3   \* tokens of a provider text that follows no schema
MaxNumbers  == 2   \* entries of a provider response

(***************************************************************************)
(* Text helpers.                                                           *)
(***************************************************************************)
\* The strings of at most n tokens over the alphabet A.
StringsUpTo(A, n) == UNION {[1..k -> A] : k \in 0..n}

\* s.includes(p): p occurs in s as a contiguous run of tokens.
Includes(s, p) ==
    \E i \in 0..Len(s) :
        /\ i + Len(p) <= Len(s)
        /\ \A j \in 1..Len(p) : s[i + j] = p[j]

WhiteSpace == {" "}

\* s.trim(): leading and trailing white space removed.
Trim(s) ==
    LET keep == {i \in 1..Len(s) : s[i] \notin WhiteSpace}
    IN  IF keep = {} THEN <<>>
        ELSE LET lo == CHOOSE i \in keep : \A j \in keep : i <= j
                 hi == CHOOSE i \in keep : \A j \in keep : j <= i
             IN  SubSeq(s, lo, hi)

\* The positions of the token c in s.
Positions(s, c) == {i \in 1..Len(s) : s[i] = c}

Min(S) == CHOOSE i \in S : \A j \in S : i <= j

(***************************************************************************)
(* process.env.API_KEY: a string, or not set at all.  NoKey stands for a   *)
(* variable that is not set; the bundler turns an unset variable into the  *)
(* text 'undefined', which the service tests for as well.                  *)
(***************************************************************************)
NoKey == <<"<unset>">>

\* !apiKey || apiKey === 'undefined' || apiKey.trim() === ''
KeyMissingNoTrim(apiKey) ==
    \/ apiKey = NoKey
    \/ apiKey = <<>>
    \/ apiKey = <<"undefined">>

KeyMissing(apiKey) ==
    \/ apiKey = NoKey
    \/ apiKey = <<>>
    \/ apiKey = <<"undefined">>
    \/ Trim(apiKey) = <<>>

(***************************************************************************)
(* The request built from the input string.                                *)
(***************************************************************************)
DefaultMime == <<"image/png">>

\* base64Image.match(/data:([^;]+);/)?.[1] || 'image/png'
\* The expression is not anchored: the leftmost "data:" that is followed by
\* one or more tokens other than ";" and then by ";" matches, and the group
\* is the text between the two.
MimeMatches(s) ==
    {i \in Positions(s, "data:") :
        \E k \in Positions(s, ";") :
            /\ k > i + 1
            /\ \A j \in (i + 1)..(k - 1) : s[j] # ";"}

MimeType(s) ==
    IF MimeMatches(s) = {} THEN DefaultMime
    ELSE LET i == Min(MimeMatches(s))
             k == Min({p \in Positions(s, ";") : p > i})
         IN  SubSeq(s, i + 1, k - 1)

\* base64Image.split(',')[1] || base64Image
\* split(',')[1] is the text between the first and the second comma (to the
\* end when there is no second one), undefined when there is no comma.
Base64Data(s) ==
    LET commas == Positions(s, ",")
    IN  IF commas = {} THEN s
        ELSE LET c1 == Min(commas)
                 rest == {p \in commas : p > c1}
                 c2 == IF rest = {} THEN Len(s) + 1 ELSE Min(rest)
                 piece == SubSeq(s, c1 + 1, c2 - 1)
             IN  IF piece = <<>> THEN s ELSE piece

(***************************************************************************)
(* JSON values.  Every value is a record of the same shape, so that any    *)
(* two values can be compared: ty is the type, s the text of a string or   *)
(* number, keys/items the members of an object (in order) or the items of  *)
(* an array.                                                               *)
(***************************************************************************)
JVal(ty, s, keys, items) == [ty |-> ty, s |-> s, keys |-> keys, items |-> items]
JUndefined == JVal("undefined", <<>>, <<>>, <<>>)
JNull      == JVal("null", <<>>, <<>>, <<>>)
JStr(s)    == JVal("str", s, <<>>, <<>>)
JNum(s)    == JVal("num", s, <<>>, <<>>)
JArr(items)      == JVal("arr", <<>>, <<>>, items)
JObj(keys, items) == JVal("obj", <<>>, keys, items)

\* v[k]: the last member named k of an object, undefined otherwise.
Get(v, k) ==
    LET at == {i \in 1..Len(v.keys) : v.keys[i] = k}
    IN  IF v.ty # "obj" \/ at = {} THEN JUndefined
        ELSE v.items[CHOOSE i \in at : \A j \in at : j <= i]

\* !v
Falsy(v) ==
    \/ v.ty \in {"undefined", "null"}
    \/ v.ty = "str" /\ v.s = <<>>
    \/ v.ty = "num" /\ v.s = <<"0">>

\* Reading a property of v throws a TypeError.
NoProperties(v) == v.ty \in {"undefined", "null"}

\* v.length === 0
LengthIsZero(v) ==
    \/ v.ty = "arr" /\ v.items = <<>>
    \/ v.ty = "str" /\ v.s = <<>>

(***************************************************************************)
(* JSON text.  The tokens "{" "}" "[" "]" ":" "," are the punctuation, the *)
(* token "\"" opens and closes a string, whose content is the tokens in    *)
(* between, " " is white space, "null" and the number tokens are literals. *)
(* Any other token outside a string is not JSON.                           *)
(***************************************************************************)
Quote == "\""
NumberTokens == {"0", "401", "403", "404", "429"}

RECURSIVE StringifyItems(_, _)
RECURSIVE StringifyMembers(_, _)
RECURSIVE Stringify(_)
\* JSON.stringify(v)
Stringify(v) ==
    CASE v.ty = "str" -> <<Quote>> \o v.s \o <<Quote>>
      [] v.ty = "num" -> v.s
      [] v.ty = "arr" -> <<"[">> \o StringifyItems(v.items, 1) \o <<"]">>
      [] v.ty = "obj" -> <<"{">> \o StringifyMembers(v, 1) \o <<"}">>
      [] OTHER -> <<"null">>

StringifyItems(items, i) ==
    IF i > Len(items) THEN <<>>
    ELSE (IF i > 1 THEN <<",">> ELSE <<>>) \o Stringify(items[i])
             \o StringifyItems(items, i + 1)

StringifyMembers(v, i) ==
    IF i > Len(v.keys) THEN <<>>
    ELSE (IF i > 1 THEN <<",">> ELSE <<>>)
             \o <<Quote>> \o v.keys[i] \o <<Quote, ":">> \o Stringify(v.items[i])
             \o StringifyMembers(v, i + 1)

\* The first position from i on that holds no white space (Len(t) + 1 when
\* there is none).
SkipWs(t, i) ==
    LET rest == {j \in i..Len(t) : t[j] \notin WhiteSpace}
    IN  IF rest = {} THEN Len(t) + 1 ELSE Min(rest)

\* The result of parsing one value: the value and the position after it.
Parsed(v, pos) == [ok |-> TRUE, v |-> v, pos |-> pos]
NotParsed == [ok |-> FALSE, v |-> JUndefined, pos |-> 0]

RECURSIVE ParseValue(_, _)
RECURSIVE ParseElements(_, _, _)
RECURSIVE ParseMembers(_, _, _, _)
ParseValue(t, from) ==
    LET i == SkipWs(t, from)
    IN  IF i > Len(t) THEN NotParsed
        ELSE CASE t[i] = Quote ->
                    LET close == {q \in (i + 1)..Len(t) : t[q] = Quote}
                    IN  IF close = {} THEN NotParsed
                        ELSE Parsed(JStr(SubSeq(t, i + 1, Min(close) - 1)), Min(close) + 1)
               [] t[i] = "null" -> Parsed(JNull, i + 1)
               [] t[i] \in NumberTokens -> Parsed(JNum(<<t[i]>>), i + 1)
               [] t[i] = "[" ->
                    LET j == SkipWs(t, i + 1)
                    IN  IF j <= Len(t) /\ t[j] = "]" THEN Parsed(JArr(<<>>), j + 1)
                        ELSE ParseElements(t, i + 1, <<>>)
               [] t[i] = "{" ->
                    LET j == SkipWs(t, i + 1)
                    IN  IF j <= Len(t) /\ t[j] = "}" THEN Parsed(JObj(<<>>, <<>>), j + 1)
                        ELSE ParseMembers(t, i + 1, <<>>, <<>>)
               [] OTHER -> NotParsed

ParseElements(t, from, acc) ==
    LET r == ParseValue(t, from)
        j == SkipWs(t, r.pos)
    IN  IF ~r.ok \/ j > Len(t) THEN NotParsed
        ELSE IF t[j] = "," THEN ParseElements(t, j + 1, Append(acc, r.v))
        ELSE IF t[j] = "]" THEN Parsed(JArr(Append(acc, r.v)), j + 1)
        ELSE NotParsed

ParseMembers(t, from, keys, items) ==
    LET k == ParseValue(t, from)
        c == SkipWs(t, k.pos)
    IN  IF ~k.ok \/ k.v.ty # "str" \/ c > Len(t) THEN NotParsed
        ELSE IF t[c] # ":" THEN NotParsed
        ELSE LET r == ParseValue(t, c + 1)
                 j == SkipWs(t, r.pos)
             IN  IF ~r.ok \/ j > Len(t) THEN NotParsed
                 ELSE IF t[j] = ","
                      THEN ParseMembers(t, j + 1, Append(keys, k.v.s), Append(items, r.v))
                 ELSE IF t[j] = "}"
                      THEN Parsed(JObj(Append(keys, k.v.s), Append(items, r.v)), j + 1)
                 ELSE NotParsed

\* JSON.parse(t): one value and nothing but white space after it.
JsonParse(t) ==
    LET r == ParseValue(t, 1)
    IN  IF r.ok /\ SkipWs(t, r.pos) > Len(t) THEN r ELSE NotParsed

\* The message of the SyntaxError JSON.parse throws on t.  What it says
\* depends on the JavaScript engine: some quote the offending text, some
\* do not.
SyntaxErrorMessages(t) ==
    { <<"Unexpected", "token">>,
      <<"Unexpected", "token">> \o t \o <<"is", "not", "valid", "JSON">> }

\* The message of the TypeError thrown by reading .numbers of null.
TypeErrorNumbers == <<"Cannot", "read", "properties", "of", "null">>

(***************************************************************************)
(* The service: extractNumbersFromImage.                                   *)
(***************************************************************************)
Revisions == {1, 2}

\* The messages of the errors the service throws, by revision.
SetupRequiredMsg(svc) ==
    IF svc = 1
    THEN "API Key missing! Please go to AI Studio 'API keys' tab and create a key first."
    ELSE "SETUP_REQUIRED: API Key is missing. Please create a key in AI Studio 'API keys' tab."

InvalidCredentialMsg(svc) ==
    IF svc = 1
    THEN "Invalid API Key. Please generate a new key in AI Studio 'API keys' tab."
    ELSE "INVALID_KEY: Your API key is invalid. Please generate a new one."

PermissionDeniedMsg == "Permission denied. Check if your API key has access to Gemini Flash."

RateLimitedMsg(svc) ==
    IF svc = 1
    THEN "Rate limit reached. Please wait a few seconds."
    ELSE "RATE_LIMIT: Too many requests. Wait a moment."

ModelUnavailableMsg == "MODEL_ERROR: The AI model is currently unavailable in your region."

GenericFailureMsg(svc) ==
    IF svc = 1
    THEN "Could not process image. Ensure it's clear and contains numbers."
    ELSE "Analysis failed. Make sure the image is clear and try again."

\* The catch block: the thrown error's message, matched against substrings
\* in the order of the code.
ClassifyRev1(msg) ==
    IF \/ Includes(msg, <<"401">>)
       \/ Includes(msg, <<"API_KEY_INVALID">>)
       \/ Includes(msg, <<"not", "found">>)
    THEN InvalidCredentialMsg(1)
    ELSE IF Includes(msg, <<"403">>) THEN PermissionDeniedMsg
    ELSE IF Includes(msg, <<"429">>) THEN RateLimitedMsg(1)
    ELSE GenericFailureMsg(1)

ClassifyRev2(msg) ==
    IF Includes(msg, <<"401">>) \/ Includes(msg, <<"API_KEY_INVALID">>)
    THEN InvalidCredentialMsg(2)
    ELSE IF Includes(msg, <<"429">>) THEN RateLimitedMsg(2)
    ELSE IF Includes(msg, <<"model", "not", "found">>) \/ Includes(msg, <<"404">>)
    THEN ModelUnavailableMsg
    ELSE GenericFailureMsg(2)

Classify(svc, msg) == IF svc = 1 THEN ClassifyRev1(msg) ELSE ClassifyRev2(msg)

\* What the service hands to its caller: a value, or a thrown Error.
Returned(v) == [ok |-> TRUE, value |-> v, message |-> ""]
Thrown(m)   == [ok |-> FALSE, value |-> JUndefined, message |-> m]

\* What the provider answers: a response with a text, a response without
\* one, or an error with a message.
TextResponse(t) == [kind |-> "text", text |-> t]
NoTextResponse  == [kind |-> "notext", text |-> <<>>]
ProviderError(m) == [kind |-> "error", text |-> m]

\* { numbers: [], summary: "" }
EmptyResponse == JObj(<<<<"numbers">>, <<"summary">>>>, <<JArr(<<>>), JStr(<<>>)>>)

\* '{"numbers":[]}'
DefaultText == <<"{", Quote, "numbers", Quote, ":", "[", "]", "}">>

\* response.text || '{"numbers":[]}'
TextOutput(answer) ==
    IF answer.kind = "text" /\ answer.text # <<>> THEN answer.text ELSE DefaultText

\* The first half of extractNumbersFromImage, up to the request: the
\* credential check, then the request's MIME type and payload.
ExtractStart(svc, apiKey, base64Image) ==
    IF KeyMissing(apiKey)
    THEN [thrown |-> TRUE, message |-> SetupRequiredMsg(svc),
          mimeType |-> <<>>, data |-> <<>>]
    ELSE [thrown |-> FALSE, message |-> "",
          mimeType |-> MimeType(base64Image), data |-> Base64Data(base64Image)]

\* What the code does with a parsed text.  Revision 1 reads parsed.numbers
\* (a TypeError on null, caught by its own catch block) and replaces a
\* response without numbers; revision 2 returns the parsed value as it is.
ReturnParsed(svc, parsed) ==
    IF svc = 1
    THEN IF NoProperties(parsed) THEN Thrown(Classify(1, TypeErrorNumbers))
         ELSE IF Falsy(Get(parsed, <<"numbers">>)) THEN Returned(EmptyResponse)
         ELSE Returned(parsed)
    ELSE Returned(parsed)

\* The second half of extractNumbersFromImage, from the provider's answer
\* on: the set of the possible outcomes (one, but for the engine's wording
\* of a SyntaxError).
ExtractFinish(svc, answer) ==
    IF answer.kind = "error" THEN {Thrown(Classify(svc, answer.text))}
    ELSE LET r == JsonParse(Trim(TextOutput(answer)))
         IN  IF r.ok THEN {ReturnParsed(svc, r.v)}
             ELSE {Thrown(Classify(svc, m)) : m \in SyntaxErrorMessages(Trim(TextOutput(answer)))}

(***************************************************************************)
(* The page: App.                                                          *)
(***************************************************************************)
VARIABLES
    appVer,      \* revision of App.tsx
    svcVer,      \* revision of the service
    apiKey,      \* process.env.API_KEY
    status,      \* useState<AppStatus>
    results,     \* useState<ExtractionResponse | null>
    error,       \* useState<string | null>
    previewUrl,  \* useState<string | null>
    dialogOpen,  \* the browser's file dialog is open
    clipReads,   \* navigator.clipboard.read() calls not yet settled
    readers,     \* FileReader loads not yet ended: the blob of each
    calls,       \* extractNumbersFromImage calls awaiting the provider
    copiedIndex, \* useState<number | null>: the row marked as copied
    timers,      \* setTimeout callbacks of copyToClipboard not yet run: the row of each
    last,        \* history: the handler that ran last, and the status before it
    hist,        \* history: whether processImage has called the service, until a reset
    fnIn,        \* input of the function under check (function specifications)
    fnOut,       \* its result
    requests     \* generateContent requests the call under check has sent

vars == <<appVer, svcVer, apiKey, status, results, error, previewUrl, dialogOpen,
          clipReads, readers, calls, copiedIndex, timers, last, hist, fnIn,
          fnOut, requests>>

page == <<status, results, error, previewUrl>>
env  == <<appVer, svcVer, apiKey>>
fn   == <<fnIn, fnOut, requests>>
copy == <<copiedIndex, timers>>

\* null, for error (a string), for previewUrl (a data URL, never empty) and
\* for copiedIndex (rows are counted from 1 here, from 0 in the page).
Null    == "<null>"
NullUrl == <<>>
NoIndex == 0

NoNumbersMsg(app) ==
    IF app = 1 THEN "No numbers detected. Please try a clearer shot."
    ELSE "No numbers detected. Try a closer shot."

ClipboardEmptyMsg(app) ==
    IF app = 1 THEN "Clipboard doesn't have an image. Copy an image first!"
    ELSE "Your clipboard is empty. Please copy an image first!"

ClipboardDeniedMsg(app) ==
    IF app = 1 THEN "Clipboard access denied. Please use Ctrl+V or click 'Choose File'."
    ELSE "Please use Ctrl + V to paste your image directly."

\* The message of the TypeError thrown by data.numbers.length when data or
\* data.numbers is null or undefined.
TypeErrorLength == "Cannot read properties of undefined (reading 'length')"

\* setError(err.message) in revision 1,
\* setError(err.message || "Analysis failed. Try another image.") in revision 2
CaughtMessage(app, m) ==
    IF app = 2 /\ m = "" THEN "Analysis failed. Try another image." ELSE m

\* error?.includes("SETUP_REQUIRED") || error?.includes("INVALID_KEY")
\* Of the messages error can hold, these two contain one of the substrings.
isSetupError == error \in {SetupRequiredMsg(2), InvalidCredentialMsg(2)}

\* results && status === 'success'
hasResults == ~Falsy(results) /\ status = "success"

\* The files and clipboard images of the model, and what
\* FileReader.readAsDataURL makes of each.
Blobs == { [type |-> "image/png", data |-> "AAA"],
           [type |-> "image/jpeg", data |-> "BBB"] }

ReadAsDataURL(blob) == <<"data:", blob.type, ";", "base64", ",", blob.data>>

\* One detected number.
Entry(number, country) ==
    JObj(<<<<"number">>, <<"country">>>>, <<JStr(number), JStr(country)>>)

\* An ExtractionResponse as the provider's schema shapes it.
Response(entries) == JObj(<<<<"numbers">>>>, <<JArr(entries)>>)

EntryUSA == Entry(<<"+1 555-0100">>, <<"USA">>)
EntryUK  == Entry(<<"+44 20 7946 0958">>, <<"UK">>)
EntryNoCountry == Entry(<<"017 1234">>, <<>>)

\* The provider's answers in the model of the page: responses that follow
\* the schema, texts that do not, no text, and errors.
ProviderAnswers ==
    { TextResponse(Stringify(Response(<<>>))),
      TextResponse(Stringify(Response(<<EntryUSA>>))),
      TextResponse(Stringify(Response(<<EntryUK, EntryNoCountry>>))),
      TextResponse(<<"{", "}">>),
      TextResponse(<<"null">>),
      TextResponse(<<"Sorry", "401">>),
      TextResponse(<<" ">>),
      TextResponse(<<>>),
      NoTextResponse,
      ProviderError(<<>>),
      ProviderError(<<"fetch", "failed">>),
      ProviderError(<<"401">>),
      ProviderError(<<"API_KEY_INVALID">>),
      ProviderError(<<"403">>),
      ProviderError(<<"429">>),
      ProviderError(<<"404">>),
      ProviderError(<<"model", "not", "found">>),
      ProviderError(<<"429", "after", "401">>) }

\* What extractNumbersFromImage makes of each of these answers, by revision.
AnswerResults ==
    [svc \in Revisions |-> [answer \in ProviderAnswers |-> ExtractFinish(svc, answer)]]

\* The credentials of the model: unset, the text 'undefined', empty,
\* blank, and a usable key.
ApiKeys == { NoKey, <<"undefined">>, <<>>, <<" ">>, <<" ", " ">>, <<"AIza">> }

RemoveAt(seq, i) == SubSeq(seq, 1, i - 1) \o SubSeq(seq, i + 1, Len(seq))

\* The asynchronous operations of a capture outstanding, and all the
\* callbacks outstanding.
Outstanding == clipReads + Len(readers) + Len(calls)
Pending == Outstanding + Len(timers)

\* History: handler op ran from the current status.  When the step settled
\* a call of extractNumbersFromImage, ret is what the call returned or threw,
\* alone says that nothing else was outstanding, and stale that a reset
\* came between the call and its answer.
\* hist is "fresh" until processImage first calls extractNumbersFromImage,
\* "issued" from then on, and "reset" once a reset has been taken.
Track(op) ==
    hist' = IF op = "resetApp" THEN "reset"
            ELSE IF op = "processImage" /\ hist = "fresh" THEN "issued"
            ELSE hist

Settled(op, ret, stale) ==
    /\ last' = [op |-> op, from |-> status, settled |-> TRUE, ret |-> ret,
                alone |-> Outstanding = 1, stale |-> stale]
    /\ Track(op)

Done(op) ==
    /\ last' = [op |-> op, from |-> status, settled |-> FALSE, ret |-> Returned(JUndefined),
                alone |-> FALSE, stale |-> FALSE]
    /\ Track(op)

(***************************************************************************)
(* processImage, in two halves.  The first runs to the await: it calls     *)
(* extractNumbersFromImage, which either throws at once (the promise is    *)
(* rejected before any other event is handled, so the catch block runs in  *)
(* the same step) or sends its request.  The second half runs when the     *)
(* provider has answered.                                                  *)
(***************************************************************************)
\* processImage without its setResults(null).
ProcessImageStartKeepsResults(base64, start) ==
    /\ previewUrl' = base64
    /\ results' = results
    /\ IF start.thrown
       THEN error' = CaughtMessage(appVer, start.message) /\ status' = "error"
       ELSE error' = Null /\ status' = "loading"

\* processImage without its setStatus('loading').
ProcessImageStartKeepsStatus(base64, start) ==
    /\ previewUrl' = base64
    /\ results' = JNull
    /\ IF start.thrown
       THEN error' = CaughtMessage(appVer, start.message) /\ status' = "error"
       ELSE error' = Null /\ status' = status

ProcessImageStart(base64, start) ==
    /\ previewUrl' = base64
    /\ results' = JNull
    /\ IF start.thrown
       THEN error' = CaughtMessage(appVer, start.message) /\ status' = "error"
       ELSE error' = Null /\ status' = "loading"

ProcessImageResumeNoAdvisory(r) ==
    /\ previewUrl' = previewUrl
    /\ IF r.ok
       THEN /\ results' = r.value
            /\ IF NoProperties(r.value) \/ NoProperties(Get(r.value, <<"numbers">>))
               THEN error' = CaughtMessage(appVer, TypeErrorLength) /\ status' = "error"
               ELSE status' = "success" /\ error' = error
       ELSE /\ results' = results
            /\ error' = CaughtMessage(appVer, r.message)
            /\ status' = "error"

\* processImage with a catch block that sets the message only.
ProcessImageResumeKeepsStatus(r) ==
    /\ previewUrl' = previewUrl
    /\ IF r.ok
       THEN /\ results' = r.value
            /\ IF NoProperties(r.value) \/ NoProperties(Get(r.value, <<"numbers">>))
               THEN error' = CaughtMessage(appVer, TypeErrorLength) /\ status' = "error"
               ELSE /\ status' = "success"
                    /\ error' = IF LengthIsZero(Get(r.value, <<"numbers">>))
                                THEN NoNumbersMsg(appVer) ELSE error
       ELSE /\ results' = results
            /\ error' = CaughtMessage(appVer, r.message)
            /\ status' = status

ProcessImageResume(r) ==
    /\ previewUrl' = previewUrl
    /\ IF r.ok
       THEN /\ results' = r.value
            /\ IF NoProperties(r.value) \/ NoProperties(Get(r.value, <<"numbers">>))
               THEN error' = CaughtMessage(appVer, TypeErrorLength) /\ status' = "error"
               ELSE /\ status' = "success"
                    /\ error' = IF LengthIsZero(Get(r.value, <<"numbers">>))
                                THEN NoNumbersMsg(appVer) ELSE error
       ELSE /\ results' = results
            /\ error' = CaughtMessage(appVer, r.message)
            /\ status' = "error"

\* resetApp of revision 1; the inline handler of the RESET button of
\* revision 2, which leaves error alone.
ResetKeepsPreview(app) ==
    /\ results' = JNull
    /\ previewUrl' = previewUrl
    /\ error' = IF app = 1 THEN Null ELSE error
    /\ status' = "idle"

Reset(app) ==
    /\ results' = JNull
    /\ previewUrl' = NullUrl
    /\ error' = IF app = 1 THEN Null ELSE error
    /\ status' = "idle"

(***************************************************************************)
(* What the page shows of the results: one row per number, the country as  *)
(* it is in revision 1, item.country || "Detected" in revision 2.          *)
(***************************************************************************)
Row(app, item) ==
    [number  |-> Get(item, <<"number">>),
     country |-> IF app = 2 /\ Falsy(Get(item, <<"country">>))
                 THEN JStr(<<"Detected">>) ELSE Get(item, <<"country">>)]

Displayed ==
    IF hasResults /\ Get(results, <<"numbers">>).ty = "arr"
    THEN [i \in 1..Len(Get(results, <<"numbers">>).items) |->
              Row(appVer, Get(results, <<"numbers">>).items[i])]
    ELSE <<>>

(***************************************************************************)
(* The events.  While the file dialog is open the page takes no input.     *)
(***************************************************************************)
\* The "Choose Image File" button of revision 1 (shown without results and
\* not while loading), the "SELECT FILE" button of revision 2 (shown with
\* results).
openFileSelector ==
    /\ ~dialogOpen
    /\ IF appVer = 1 THEN ~hasResults /\ status # "loading" ELSE hasResults
    /\ dialogOpen' = TRUE
    /\ Done("openFileSelector")
    /\ UNCHANGED <<env, page, clipReads, readers, calls, copy, fn>>

\* The dialog closes with the chosen files (none when it is dismissed).
handleFileChange(files) ==
    /\ dialogOpen
    /\ dialogOpen' = FALSE
    /\ IF files # <<>>
       THEN Pending < MaxPending /\ readers' = Append(readers, files[1])
       ELSE readers' = readers
    /\ Done("handleFileChange")
    /\ UNCHANGED <<env, page, clipReads, calls, copy, fn>>

\* A click on the action box: handleClipboardAction in revision 1,
\* handleBoxClick in revision 2, up to the await of clipboard.read().
handleClipboardAction ==
    /\ ~dialogOpen
    /\ IF status = "loading"
       THEN UNCHANGED <<error, clipReads>>
       ELSE Pending < MaxPending /\ error' = Null /\ clipReads' = clipReads + 1
    /\ Done("handleClipboardAction")
    /\ UNCHANGED <<env, status, results, previewUrl, dialogOpen, readers, calls, copy, fn>>

\* The continuation with a setStatus('error') next to each setError.
clipboardReadSetsStatus ==
    /\ clipReads > 0
    /\ clipReads' = clipReads - 1
    /\ \/ \E blob \in Blobs :
            /\ readers' = Append(readers, blob)
            /\ error' = error
            /\ status' = status
       \/ error' = ClipboardEmptyMsg(appVer) /\ readers' = readers /\ status' = "error"
       \/ error' = ClipboardDeniedMsg(appVer) /\ readers' = readers /\ status' = "error"
    /\ Done("clipboardRead")
    /\ UNCHANGED <<env, results, previewUrl, dialogOpen, calls, copy, fn>>

\* clipboard.read() settles: with an image, without one, or rejected.
clipboardRead ==
    /\ clipReads > 0
    /\ clipReads' = clipReads - 1
    /\ \/ \E blob \in Blobs :
            /\ readers' = Append(readers, blob)
            /\ error' = error
       \/ error' = ClipboardEmptyMsg(appVer) /\ readers' = readers
       \/ error' = ClipboardDeniedMsg(appVer) /\ readers' = readers
    /\ Done("clipboardRead")
    /\ UNCHANGED <<env, status, results, previewUrl, dialogOpen, calls, copy, fn>>

\* The items of a paste event: text, or an image file.
TextItem == [type |-> "text/plain", file |-> <<>>]
ImageItem(blob) == [type |-> blob.type, file |-> <<blob>>]
PasteItems == {TextItem} \cup {ImageItem(b) : b \in Blobs}
PasteEvents ==
    { <<>>, <<TextItem>> }
      \cup {<<ImageItem(b)>> : b \in Blobs}
      \cup {<<TextItem, ImageItem(b)>> : b \in Blobs}
      \cup {<<ImageItem(a), ImageItem(b)>> : a, b \in Blobs}

\* items[i].type.indexOf("image") !== -1
IsImageType(type) == type \in {"image/png", "image/jpeg"}

\* The first image item with a file.
FirstImage(items) ==
    LET at == {i \in 1..Len(items) : IsImageType(items[i].type) /\ items[i].file # <<>>}
    IN  IF at = {} THEN <<>> ELSE items[Min(at)].file

\* handlePaste with the setError(null) of the click handler in it.
handlePasteClearsError(items) ==
    /\ ~dialogOpen
    /\ IF FirstImage(items) # <<>>
       THEN Pending < MaxPending /\ readers' = Append(readers, FirstImage(items)[1])
       ELSE readers' = readers
    /\ error' = Null
    /\ Done("handlePaste")
    /\ UNCHANGED <<env, status, results, previewUrl, dialogOpen, clipReads, calls, copy, fn>>

handlePaste(items) ==
    /\ ~dialogOpen
    /\ IF FirstImage(items) # <<>>
       THEN Pending < MaxPending /\ readers' = Append(readers, FirstImage(items)[1])
       ELSE readers' = readers
    /\ Done("handlePaste")
    /\ UNCHANGED <<env, page, dialogOpen, clipReads, calls, copy, fn>>

\* reader.onloadend: processImage(reader.result).
readerLoadEnd(i) ==
    LET base64 == ReadAsDataURL(readers[i])
        start  == ExtractStart(svcVer, apiKey, base64)
    IN  /\ readers' = RemoveAt(readers, i)
        /\ ProcessImageStart(base64, start)
        /\ IF start.thrown
           THEN calls' = calls
           ELSE calls' = Append(calls, [image |-> base64, mimeType |-> start.mimeType,
                                     data |-> start.data, stale |-> FALSE])
        /\ IF start.thrown
           THEN Settled("processImage", Thrown(start.message), FALSE)
           ELSE Done("processImage")
        /\ UNCHANGED <<env, dialogOpen, clipReads, copy, fn>>

\* The provider answers call i: extractNumbersFromImage returns or throws
\* and processImage goes on.
providerAnswers(i, answer) ==
    /\ \E r \in AnswerResults[svcVer][answer] :
            /\ ProcessImageResume(r)
            /\ Settled("processImageResume", r, calls[i].stale)
    /\ calls' = RemoveAt(calls, i)
    /\ UNCHANGED <<env, dialogOpen, clipReads, readers, copy, fn>>

\* A click on a reset button.  Revision 1 shows one with the results and
\* one in the error panel unless the error is a setup error; revision 2
\* shows one with the results.
ResetShown ==
    IF appVer = 1
    THEN hasResults \/ (error # Null /\ ~isSetupError)
    ELSE hasResults

resetApp ==
    /\ ~dialogOpen
    /\ ResetShown
    /\ Reset(appVer)
    /\ calls' = [i \in 1..Len(calls) |-> [calls[i] EXCEPT !.stale = TRUE]]
    /\ Done("resetApp")
    /\ UNCHANGED <<env, dialogOpen, clipReads, readers, copy, fn>>

\* The rows shown: results.numbers.map((item, idx) => ...).
Rows == 1..Len(Displayed)

\* copyToClipboard with a setError(null) added, as the capture handlers have.
copyToClipboardClearsError(index) ==
    /\ ~dialogOpen
    /\ index \in Rows
    /\ Pending < MaxPending
    /\ copiedIndex' = index
    /\ timers' = Append(timers, index)
    /\ error' = Null
    /\ Done("copyToClipboard")
    /\ UNCHANGED <<env, status, results, previewUrl, dialogOpen, clipReads, readers, calls, fn>>

\* A click on the copy button of row index: the marker moves to the row and
\* a timer is started that clears copiedIndex.  navigator.clipboard.writeText
\* writes text only, which no capture reads.
copyToClipboard(index) ==
    /\ ~dialogOpen
    /\ index \in Rows
    /\ Pending < MaxPending
    /\ copiedIndex' = index
    /\ timers' = Append(timers, index)
    /\ Done("copyToClipboard")
    /\ UNCHANGED <<env, page, dialogOpen, clipReads, readers, calls, fn>>

\* The oldest timer runs (all have the same delay, so they run in the order
\* they were set): setCopiedIndex(null).
copiedTimeout ==
    /\ timers # <<>>
    /\ copiedIndex' = NoIndex
    /\ timers' = Tail(timers)
    /\ Done("copiedTimeout")
    /\ UNCHANGED <<env, page, dialogOpen, clipReads, readers, calls, fn>>

Init ==
    /\ appVer \in Revisions
    /\ svcVer \in Revisions
    /\ apiKey \in ApiKeys
    /\ status = "idle"
    /\ results = JNull
    /\ error = Null
    /\ previewUrl = NullUrl
    /\ dialogOpen = FALSE
    /\ clipReads = 0
    /\ readers = <<>>
    /\ calls = <<>>
    /\ copiedIndex = NoIndex
    /\ timers = <<>>
    /\ last = [op |-> "init", from |-> "idle", settled |-> FALSE,
               ret |-> Returned(JUndefined), alone |-> FALSE, stale |-> FALSE]
    /\ hist = "fresh"
    /\ fnIn = <<>>
    /\ fnOut = <<>>
    /\ requests = 0

Next ==
    \/ openFileSelector
    \/ \E files \in {<<>>} \cup {<<b>> : b \in Blobs} : handleFileChange(files)
    \/ handleClipboardAction
    \/ clipboardRead
    \/ \E items \in PasteEvents : handlePaste(items)
    \/ \E i \in 1..Len(readers) : readerLoadEnd(i)
    \/ \E i \in 1..Len(calls), answer \in ProviderAnswers : providerAnswers(i, answer)
    \/ resetApp
    \/ \E index \in Rows : copyToClipboard(index)
    \/ copiedTimeout

Spec == Init /\ [][Next]_vars

\* The page when every call that waits for the provider is answered in the
\* end, with a response or an error.
SpecLive ==
    Init /\ [][Next]_vars
         /\ WF_vars(\E i \in 1..Len(calls), answer \in ProviderAnswers : providerAnswers(i, answer))

(***************************************************************************)
(* The two halves of extractNumbersFromImage as functions of their input:  *)
(* SpecRequest applies the first half to every input string, SpecAnswer    *)
(* the second half to every answer of the provider.  The page stays idle.  *)
(***************************************************************************)
ImageTokens == {"data:", ";", ",", "image/jpeg", "AAA"}
MsgTokens == {"401", "403", "404", "429", "API_KEY_INVALID", "model", "not", "found",
              "failed"}
TextTokens == {"{", "}", " ", "null", "401", "oops"}
SampleEntries == {EntryUSA, EntryUK, EntryNoCountry}

AnswerInputs ==
    {ProviderError(m) : m \in StringsUpTo(MsgTokens, MaxMsgLen)}
      \cup {NoTextResponse}
      \cup {TextResponse(t) : t \in StringsUpTo(TextTokens, MaxTextLen)}
      \cup {TextResponse(Stringify(Response(e))) : e \in StringsUpTo(SampleEntries, MaxNumbers)}

IdlePage ==
    /\ appVer = 1
    /\ svcVer \in Revisions
    /\ status = "idle"
    /\ results = JNull
    /\ error = Null
    /\ previewUrl = NullUrl
    /\ dialogOpen = FALSE
    /\ clipReads = 0
    /\ readers = <<>>
    /\ calls = <<>>
    /\ copiedIndex = NoIndex
    /\ timers = <<>>
    /\ last = [op |-> "init", from |-> "idle", settled |-> FALSE,
               ret |-> Returned(JUndefined), alone |-> FALSE, stale |-> FALSE]
    /\ hist = "fresh"
    /\ requests = 0

InitRequest ==
    /\ IdlePage
    /\ apiKey = <<"AIza">>
    /\ fnIn \in StringsUpTo(ImageTokens, MaxImageLen)
    /\ fnOut = <<>>

buildRequest ==
    /\ fnOut = <<>>
    /\ fnOut' = <<ExtractStart(svcVer, apiKey, fnIn)>>
    /\ UNCHANGED <<env, page, dialogOpen, clipReads, readers, calls, copy, last, hist, fnIn, requests>>

SpecRequest == InitRequest /\ [][buildRequest]_vars

InitAnswer ==
    /\ IdlePage
    /\ apiKey = <<"AIza">>
    /\ fnIn \in AnswerInputs
    /\ fnOut = <<>>

settleAnswer ==
    /\ fnOut = <<>>
    /\ \E r \in ExtractFinish(svcVer, fnIn) : fnOut' = <<r>>
    /\ UNCHANGED <<env, page, dialogOpen, clipReads, readers, calls, copy, last, hist, fnIn, requests>>

SpecAnswer == InitAnswer /\ [][settleAnswer]_vars

(***************************************************************************)
(* One call of extractNumbersFromImage from its start to its end, with a   *)
(* count of the requests it sends to the provider: SpecCall runs it for    *)
(* every credential and every answer.  fnOut holds the outcome of the      *)
(* first half, then the answer and the result.                             *)
(***************************************************************************)
\* The catch block with a second generateContent in it after a provider error.
RequestsAfterRetry(n, answer) == IF answer.kind = "error" THEN n + 1 ELSE n

\* The requests sent once the provider has answered: the code after the
\* await, the catch block included, calls generateContent no more.
RequestsAfter(n, answer) == n

InitCall ==
    /\ IdlePage
    /\ apiKey \in ApiKeys
    /\ fnIn \in {ReadAsDataURL(b) : b \in Blobs}
    /\ fnOut = <<>>

callStart ==
    /\ fnOut = <<>>
    /\ fnOut' = <<ExtractStart(svcVer, apiKey, fnIn)>>
    /\ requests' = IF ExtractStart(svcVer, apiKey, fnIn).thrown THEN requests ELSE requests + 1
    /\ UNCHANGED <<env, page, dialogOpen, clipReads, readers, calls, copy, last, hist, fnIn>>

callSettle(answer) ==
    /\ Len(fnOut) = 1 /\ ~fnOut[1].thrown
    /\ \E r \in ExtractFinish(svcVer, answer) : fnOut' = <<fnOut[1], answer, r>>
    /\ requests' = RequestsAfter(requests, answer)
    /\ UNCHANGED <<env, page, dialogOpen, clipReads, readers, calls, copy, last, hist, fnIn>>

SpecCall == InitCall /\ [][callStart \/ \E answer \in AnswerInputs : callSettle(answer)]_vars

(***************************************************************************)
(* The claims.                                                             *)
(***************************************************************************)
\* The numbers of a value the service returned, when they are a list.
NumbersOf(ret) == Get(ret.value, <<"numbers">>)
ReturnedList(ret) == ret.ok /\ NumbersOf(ret).ty = "arr"

\* C1: in every reachable state at most one call of extractNumbersFromImage
\* is outstanding (a capture made while loading starts no second call).
C1_AtMostOneCall == Len(calls) <= 1

\* C2: a stale response is ignored: when a call that a reset has overtaken
\* settles while the page is idle, status stays idle, results stay null and
\* the error message is not touched.
C2_StaleResponseIgnored ==
    [][(last'.op = "processImageResume" /\ last'.stale /\ status = "idle"
            /\ Len(calls') < Len(calls))
        => (status' = "idle" /\ results' = JNull /\ error' = error)]_vars

\* C3: the reset action, from whatever status it is taken, yields status
\* idle with results null and preview image null.
C3_ResetYieldsIdle ==
    last.op = "resetApp" => (status = "idle" /\ results = JNull /\ previewUrl = NullUrl)

C3_Witness == last.op = "resetApp" /\ last.from = "success" /\ status = "idle"

\* The credential is missing, empty or made of white space only.
BlankKey(key) == key = NoKey \/ \A i \in 1..Len(key) : key[i] \in WhiteSpace

\* C4: with a missing, empty or white-space-only credential the call fails
\* with the SetupRequired error without a request to the provider, and the
\* attempt ends in status error with that message and results null.
C4_BlankKeySetupRequired ==
    (BlankKey(apiKey) /\ last.op = "processImage")
        => /\ last.settled /\ last.ret = Thrown(SetupRequiredMsg(svcVer))
           /\ calls = <<>>
           /\ status = "error"
           /\ error = SetupRequiredMsg(svcVer)
           /\ results = JNull

C4_Witness == apiKey = <<" ", " ">> /\ last.op = "processImage" /\ status = "error"

\* C5: a provider error message that contains the rate-limit indicator "429"
\* is classified as RateLimited, whatever else it contains.
C5_RateLimitWins ==
    (fnOut # <<>> /\ fnIn.kind = "error" /\ Includes(fnIn.text, <<"429">>))
        => fnOut[1] = Thrown(RateLimitedMsg(svcVer))

\* C6: when the provider answers without a text, or with an empty one, the
\* service returns exactly {numbers: [], summary: ""} and does not fail.
C6_NoTextGivesEmptyResponse ==
    (fnOut # <<>> /\ fnIn \in {NoTextResponse, TextResponse(<<>>)})
        => fnOut[1] = Returned(EmptyResponse)

\* The MIME type of C7: the text between a leading "data:" and the first
\* ";" when there is some, the default otherwise.
MimeOfPrefix(s) ==
    IF Len(s) >= 1 /\ s[1] = "data:" /\ Positions(s, ";") # {}
          /\ Min(Positions(s, ";")) > 2
    THEN SubSeq(s, 2, Min(Positions(s, ";")) - 1)
    ELSE DefaultMime

\* C7: for every input string the MIME type sent is the text between the
\* leading "data:" and the first ";", and the default "image/png" when the
\* input has no such prefix.
C7_MimeFromPrefix == fnOut # <<>> => fnOut[1].mimeType = MimeOfPrefix(fnIn)

\* C8: when the only outstanding call returns a response with N >= 1
\* numbers, the page goes from loading to success and shows exactly those N
\* numbers in the provider's order, number and country unchanged, and no
\* error message.
C8_SuccessShowsResponse ==
    (last.op = "processImageResume" /\ last.alone /\ last.from = "loading"
            /\ ReturnedList(last.ret) /\ Len(NumbersOf(last.ret).items) >= 1)
        => /\ status = "success"
           /\ Len(Displayed) = Len(NumbersOf(last.ret).items)
           /\ \A i \in 1..Len(Displayed) :
                 /\ Displayed[i].number = Get(NumbersOf(last.ret).items[i], <<"number">>)
                 /\ Displayed[i].country = Get(NumbersOf(last.ret).items[i], <<"country">>)
           /\ error = Null

\* C9: when the service returns a response whose numbers list is empty, the
\* attempt ends in status success, not error, with zero results and the
\* "no numbers detected" message.
C9_EmptyListIsSuccess ==
    (last.op = "processImageResume" /\ ReturnedList(last.ret)
            /\ NumbersOf(last.ret).items = <<>>)
        => /\ status = "success"
           /\ results = last.ret.value
           /\ Displayed = <<>>
           /\ error = NoNumbersMsg(appVer)

C9_Witness ==
    /\ last.op = "processImageResume" /\ last.from = "loading"
    /\ ReturnedList(last.ret) /\ NumbersOf(last.ret).items = <<>>
    /\ status = "success"

\* The steps the user takes: a capture action or a reset.
UserOps == {"openFileSelector", "handleFileChange", "handleClipboardAction",
            "handlePaste", "resetApp"}

Marked(j) == copiedIndex = j
MarkedAfter(j) == copiedIndex' = j

\* The markers of the rows other than i are after the step what they were.
OthersKept(i) == \A j \in Rows \ {i} : MarkedAfter(j) <=> Marked(j)

\* C11: a copy on row i sets the marker of row i, which is cleared when the
\* timer of that copy runs; neither the copy on i nor the expiry of the timer
\* of i sets or clears the marker of another row j (a row j copied while the
\* timer of i is still waiting keeps its marker until its own timer runs).
C11_MarkersIndependent ==
    [][/\ (last'.op = "copyToClipboard")
            => (MarkedAfter(timers'[Len(timers')]) /\ OthersKept(timers'[Len(timers')]))
       /\ (last'.op = "copiedTimeout")
            => (~MarkedAfter(timers[1]) /\ OthersKept(timers[1]))]_vars

\* C12: the copy action and the expiry of its timer leave status, results,
\* error and preview as they are.
C12_CopyLeavesPage ==
    [][last'.op \in {"copyToClipboard", "copiedTimeout"} => UNCHANGED page]_vars

C12_Witness ==
    /\ last.op = "copiedTimeout" /\ copiedIndex = NoIndex
    /\ status = "success" /\ Len(Displayed) = 2

\* C13: a call of extractNumbersFromImage with a usable credential sends
\* exactly one request to the provider, whatever the outcome: one while the
\* answer is awaited, and still one after a provider error, a text that does
\* not parse, or an empty response.
C13_OneRequestPerCall ==
    (Len(fnOut) >= 1 /\ ~KeyMissing(apiKey)) => requests = 1

C13_Witness ==
    /\ Len(fnOut) = 3 /\ requests = 1
    /\ fnOut[2] = ProviderError(<<"429">>)
    /\ fnOut[3] = Thrown(RateLimitedMsg(svcVer))

\* The category of the taxonomy a message of the service stands for.
CategoryOf(message) ==
    IF message \in {SetupRequiredMsg(v) : v \in Revisions} THEN "SetupRequired"
    ELSE IF message \in {InvalidCredentialMsg(v) : v \in Revisions} THEN "InvalidCredential"
    ELSE IF message = PermissionDeniedMsg THEN "PermissionDenied"
    ELSE IF message \in {RateLimitedMsg(v) : v \in Revisions} THEN "RateLimited"
    ELSE IF message = ModelUnavailableMsg THEN "ModelUnavailable"
    ELSE IF message \in {GenericFailureMsg(v) : v \in Revisions} THEN "GenericFailure"
    ELSE "none"

\* The categories a provider error message points to, as C14 lists them.
Indicated(msg) ==
    {c \in {"InvalidCredential", "PermissionDenied", "RateLimited", "ModelUnavailable"} :
        \/ c = "InvalidCredential"
             /\ (Includes(msg, <<"401">>) \/ Includes(msg, <<"API_KEY_INVALID">>))
        \/ c = "PermissionDenied" /\ Includes(msg, <<"403">>)
        \/ c = "RateLimited" /\ Includes(msg, <<"429">>)
        \/ c = "ModelUnavailable"
             /\ (Includes(msg, <<"404">>) \/ Includes(msg, <<"model", "not", "found">>))}

\* C14: a provider error whose message points to one category is thrown on
\* with the message of that category (invalid credential, permission denied
\* for "403", rate limited, model unavailable for "404" or "model not
\* found"), and one that points to none with the GenericFailure message.
C14_FiveCategories ==
    (fnOut # <<>> /\ fnIn.kind = "error" /\ Cardinality(Indicated(fnIn.text)) <= 1)
        => /\ ~fnOut[1].ok
           /\ \A c \in Indicated(fnIn.text) : CategoryOf(fnOut[1].message) = c
           /\ Indicated(fnIn.text) = {} => CategoryOf(fnOut[1].message) = "GenericFailure"

\* C15: when every provider call is answered in the end, the page does not
\* stay in loading: from every state with status loading it comes to
\* success, error or (by a reset) idle.
C15_LoadingEnds == (status = "loading") ~> (status \in {"success", "error", "idle"})

C15_Witness ==
    /\ last.op = "processImageResume" /\ last.from = "loading" /\ ~last.ret.ok
    /\ status = "error" /\ Outstanding = 0

\* C16: in every state that is not idle (success, loading, and error with
\* whatever message, the setup-required and invalid-credential ones
\* included) the page offers the reset action.
C16_ResetAlwaysOffered == status # "idle" => ResetShown

\* C17: a capture that produced an image, accepted in whatever status, sets
\* the preview to the new image and clears the previous results in the same
\* step; when the call of the service is issued (the answer is not known
\* yet) the status is loading, the previous error message is cleared and
\* the image of the preview is the one sent.
C17_CaptureStartsLoading ==
    last.op = "processImage"
        => /\ previewUrl # NullUrl
           /\ results = JNull
           /\ ~last.settled
                => /\ status = "loading"
                   /\ error = Null
                   /\ calls # <<>>
                   /\ previewUrl = calls[Len(calls)].image

C17_Witness ==
    /\ last.op = "processImage" /\ last.from = "success" /\ ~last.settled
    /\ status = "loading" /\ results = JNull

\* The steps at which the status may change: processImage called with an
\* image, the call of the service settling, and a reset.
StatusOps == {"processImage", "processImageResume", "resetApp"}

\* C18: the status starts as idle and changes only when a capture has
\* produced an image, when a call of the service returns or fails, and at a
\* reset; a clipboard read that finds no image, or is denied, sets an error
\* message and leaves status, results and preview as they are and starts no
\* call.
C18_StatusChangesOnlyAt ==
    /\ [](last.op = "init" => status = "idle")
    /\ [][/\ (status' # status) => (last'.op \in StatusOps)
          /\ (last'.op = "clipboardRead" /\ readers' = readers)
                => /\ error' \in {ClipboardEmptyMsg(appVer), ClipboardDeniedMsg(appVer)}
                   /\ UNCHANGED <<status, results, previewUrl, calls>>]_vars

C18_Witness ==
    /\ last.op = "clipboardRead" /\ error = ClipboardEmptyMsg(appVer)
    /\ status = "error" /\ readers = <<>> /\ calls = <<>>

\* C19: in every reachable state, status loading implies that a call of the
\* service is outstanding, and status idle with no reset taken so far
\* implies that processImage has not called the service so far.
C19_LoadingHasCall ==
    /\ status = "loading" => Len(calls) >= 1
    /\ (status = "idle" /\ hist # "reset") => hist = "fresh"

C19_Witness == status = "loading" /\ Len(calls) = 1 /\ hist = "issued"

\* C20: in every reachable state results are non-null only when the status
\* is success: with status error, loading or idle, results is null.
C20_ResultsOnlyInSuccess == status # "success" => results = JNull

\* The image of the call that the step settles.
SettledImages == {calls[i].image : i \in {k \in 1..Len(calls) : calls' = RemoveAt(calls, k)}}

\* C21: whenever a call of the service settles into status success, the
\* results then shown are the response for the image shown as preview, the
\* image of the latest capture, however captures and answers interleave.
C21_ResultsForPreview ==
    [][(last'.op = "processImageResume" /\ status' = "success")
            => (results' = last'.ret.value /\ SettledImages = {previewUrl'})]_vars

\* C22: whenever extractNumbersFromImage returns without failing, the value
\* it returns has a numbers list (an empty one when the provider's text is
\* JSON without a numbers field), and the page goes to success, not error.
C22_ReturnHasNumbers ==
    (last.op = "processImageResume" /\ last.ret.ok)
        => (ReturnedList(last.ret) /\ status = "success")

\* C23: after a reset no message of the attempt before is left: error is
\* null in the idle state the reset yields, also when the reset is taken
\* from a success state with the "no numbers detected" message.
C23_ResetClearsMessage == last.op = "resetApp" => (status = "idle" /\ error = Null)

\* C24: when the provider answers with a text that is not empty and does
\* not parse as JSON, the service fails with the GenericFailure message and
\* with no other, whatever the text contains.
C24_UnparseableIsGeneric ==
    (fnOut # <<>> /\ fnIn.kind = "text" /\ fnIn.text # <<>>
            /\ ~JsonParse(Trim(fnIn.text)).ok)
        => fnOut[1] = Thrown(GenericFailureMsg(svcVer))

\* The payload of C25: everything after the first comma, the whole input
\* when it has no comma.
AfterFirstComma(s) ==
    IF Positions(s, ",") = {} THEN s
    ELSE SubSeq(s, Min(Positions(s, ",")) + 1, Len(s))

\* C25: for every input string the payload sent to the provider is what
\* follows the first comma, the empty payload included, and the whole input
\* when it has no comma.
C25_PayloadAfterComma == fnOut # <<>> => fnOut[1].data = AfterFirstComma(fnIn)

\* What a capture of image b comes to, by paste or by file selection: a
\* FileReader load of b is started, the file dialog is closed, and status,
\* results, error, preview and the outstanding calls are as before.
Captured(b) ==
    /\ readers' = Append(readers, b)
    /\ dialogOpen' = FALSE
    /\ UNCHANGED <<page, clipReads, calls, copy>>

\* What the end of a FileReader load comes to, whichever handler started
\* it: processImage with the data URL of the blob.
Processed ==
    \E i \in 1..Len(readers) :
        /\ readers' = RemoveAt(readers, i)
        /\ previewUrl' = ReadAsDataURL(readers[i])
        /\ results' = JNull
        /\ calls' # calls
              => /\ status' = "loading" /\ error' = Null
                 /\ Len(calls') = Len(calls) + 1
                 /\ calls'[Len(calls')].image = ReadAsDataURL(readers[i])

\* C26: a paste event with an image and a file selection of the same image
\* are handled alike: each starts the same load, which ends in the same
\* processImage step (same preview, status loading, error and results
\* cleared, same call); a paste event without an image item changes nothing.
C26_PasteLikeFileSelection ==
    [][/\ (last'.op = "handlePaste")
            => /\ \A b \in Blobs : handlePaste(<<ImageItem(b)>>) => Captured(b)
               /\ \A items \in {<<>>, <<TextItem>>} :
                     handlePaste(items)
                        => UNCHANGED <<page, dialogOpen, clipReads, readers, calls, copy>>
       /\ (last'.op = "handleFileChange")
            => \A b \in Blobs : handleFileChange(<<b>>) => Captured(b)
       /\ (last'.op = "processImage") => Processed]_vars

C26_Witness ==
    /\ last.op = "handlePaste" /\ Len(readers) = 1
    /\ status = "error" /\ error # Null /\ calls = <<>>

=============================================================================
